---- MODULE Spec2Model ----
(***************************************************************************)
(* RAG PDF assistant: ingestion (ingest.py), retrieval and answer          *)
(* generation (retriever.py).                                              *)
(*                                                                         *)
(* Strings are sequences of characters and a character is an integer: a    *)
(* positive integer is a (one-character) word, SP is a whitespace          *)
(* character, negative integers are the characters of fixed literals.      *)
(* The numeric defaults of the program (chunk size 800, overlap 100, text  *)
(* cap 2000, 6 candidates per requested result, 2 results per source) keep *)
(* their role; the first three are scaled down so that a page of a few     *)
(* words is cut into several chunks and a chunk is longer than the cap.    *)
(***************************************************************************)
EXTENDS Integers, Sequences, FiniteSets, TLC

VARIABLES idxFile, metaFile, last, wpc, wmem, rpc, rview, ck

vars == <<idxFile, metaFile, last, wpc, wmem, rpc, rview, ck>>

(***************************************************************************)
(* Bounds of the model                                                     *)
(***************************************************************************)
MaxRecords == 9
MaxK == 4
MaxTokens == 4
MaxChunkSize == 3
MaxPages == 2
MaxCrashRecords == 5

(***************************************************************************)
(* Program constants                                                       *)
(***************************************************************************)
DefaultChunkSize == 2
DefaultOverlap == 1
MetaTextCap == 2
CandidateFactor == 6
PerSourceCap == 2

(***************************************************************************)
(* Characters and strings                                                  *)
(***************************************************************************)
SP == 0
NL == -1
SepChar == -2
SourceLabel == -3
NoKeyLabel == -4
ApiErrorLabel == -5
SnippetsLabel == -6
ErrChar == -7
CompletionChar == -8
PageLabel == -9
ChunkLabel == -10

Max(a, b) == IF a >= b THEN a ELSE b
Min(a, b) == IF a <= b THEN a ELSE b

\* sep.join(items)
RECURSIVE JoinWith(_, _)
JoinWith(sep, items) ==
    IF items = <<>> THEN <<>>
    ELSE IF Len(items) = 1 THEN Head(items)
    ELSE Head(items) \o sep \o JoinWith(sep, Tail(items))

\* str.split(): the maximal runs of non-whitespace characters; a word of the
\* model is one character, so the runs are the non-SP characters
Split(text) == SelectSeq(text, LAMBDA c : c # SP)

\* " ".join(tokens)
JoinTokens(tokens) == JoinWith(<<SP>>, [j \in 1..Len(tokens) |-> <<tokens[j]>>])

\* seq[lo:hi] of Python for lo >= 0 (hi may be negative: counted from the end)
PySlice(seq, lo, hi) ==
    LET n == Len(seq)
        h0 == IF hi < 0 THEN Max(0, hi + n) ELSE Min(hi, n)
        l0 == Min(lo, n)
    IN  IF h0 <= l0 THEN <<>> ELSE SubSeq(seq, l0 + 1, h0)

\* s[:cap]
Truncate(s, cap) == PySlice(s, 0, cap)

\* s occurs in t at offset o (0-based)
OccursAt(s, t, o) ==
    /\ o >= 0
    /\ o + Len(s) <= Len(t)
    /\ \A j \in 1..Len(s) : t[o + j] = s[j]

IsSubstring(s, t) == \E o \in 0..Len(t) : OccursAt(s, t, o)

(***************************************************************************)
(* chunk_texts                                                             *)
(***************************************************************************)
\* the step without the clamp to 1
ChunkStep_NoClamp(chunk_size, overlap) == chunk_size - overlap

\* the step with the overlap left out / added instead of subtracted
ChunkStep_IgnoresOverlap(chunk_size, overlap) == Max(1, chunk_size)
ChunkStep_AddsOverlap(chunk_size, overlap) == Max(1, chunk_size + overlap)

\* i += max(1, chunk_size - overlap)
ChunkStep(chunk_size, overlap) == Max(1, chunk_size - overlap)

\* the dict appended for the window starting at token i
MakeChunk(tokens, i, idx, pageNo, chunk_size) ==
    [text |-> JoinTokens(PySlice(tokens, i, i + chunk_size)),
     page |-> pageNo,
     chunk_idx |-> idx]

\* the while loop over one page
RECURSIVE PageChunks(_, _, _, _, _, _)
PageChunks(tokens, i, idx, pageNo, chunk_size, overlap) ==
    IF i < Len(tokens)
    THEN <<MakeChunk(tokens, i, idx, pageNo, chunk_size)>>
         \o PageChunks(tokens, i + ChunkStep(chunk_size, overlap), idx + 1,
                       pageNo, chunk_size, overlap)
    ELSE <<>>

\* chunk_texts as a function, as ingest_pdf calls it
RECURSIVE ChunkTexts(_, _, _)
ChunkTexts(pages, chunk_size, overlap) ==
    IF pages = <<>> THEN <<>>
    ELSE PageChunks(Split(Head(pages).text), 0, 0, Head(pages).page,
                    chunk_size, overlap)
         \o ChunkTexts(Tail(pages), chunk_size, overlap)

\* chunk_texts step by step: ck is the frame of one call
CkIdle == [pc |-> "idle", pages |-> <<>>, chunk_size |-> 0, overlap |-> 0,
           p |-> 0, tokens |-> <<>>, i |-> 0, idx |-> 0, chunks |-> <<>>]

\* the text of a page of T words: 1 2 ... T, separated by single spaces
WordsText(T) == JoinTokens([j \in 1..T |-> j])

\* page texts given to the chunker: T words, or whitespace only
PageTexts == {WordsText(T) : T \in 0..MaxTokens} \cup {<<SP>>, <<SP, 1, SP, SP, 2>>}

\* read_pdf numbers the pages 1, 2, ...
PagesOf(texts) == [j \in 1..Len(texts) |-> [page |-> j, text |-> texts[j]]]

PageLists == {PagesOf(ts) : ts \in UNION {[1..n -> PageTexts] : n \in 0..MaxPages}}

ChunkSizes == (-1)..MaxChunkSize
Overlaps == (-1)..MaxChunkSize

\* for p in pages: tokens = p["text"].split(); i = 0; idx = 0
ChunkForPage ==
    /\ ck.pc = "for"
    /\ ck.p < Len(ck.pages)
    /\ ck' = [ck EXCEPT !.p = ck.p + 1,
                        !.tokens = Split(ck.pages[ck.p + 1].text),
                        !.i = 0, !.idx = 0, !.pc = "while"]
    /\ UNCHANGED <<idxFile, metaFile, last, wpc, wmem, rpc, rview>>

\* one iteration of the while loop
ChunkIter ==
    /\ ck.pc = "while"
    /\ ck.i < Len(ck.tokens)
    /\ ck' = [ck EXCEPT
                !.chunks = Append(ck.chunks,
                              MakeChunk(ck.tokens, ck.i, ck.idx,
                                        ck.pages[ck.p].page, ck.chunk_size)),
                !.i = ck.i + ChunkStep(ck.chunk_size, ck.overlap),
                !.idx = ck.idx + 1]
    /\ UNCHANGED <<idxFile, metaFile, last, wpc, wmem, rpc, rview>>

\* the while condition fails: next page
ChunkWhileExit ==
    /\ ck.pc = "while"
    /\ ck.i >= Len(ck.tokens)
    /\ ck' = [ck EXCEPT !.pc = "for"]
    /\ UNCHANGED <<idxFile, metaFile, last, wpc, wmem, rpc, rview>>

\* return chunks
ChunkReturn ==
    /\ ck.pc = "for"
    /\ ck.p >= Len(ck.pages)
    /\ ck' = [ck EXCEPT !.pc = "done"]
    /\ UNCHANGED <<idxFile, metaFile, last, wpc, wmem, rpc, rview>>

(***************************************************************************)
(* Documents, embeddings, the persisted index                              *)
(***************************************************************************)
\* os.path.basename(path); a path is the sequence of its components
Basename(path) == path[Len(path)]

\* the PDFs of the model, as read_pdf returns them: a.pdf gives 5 chunks,
\* b.pdf 3 chunks on two pages, c.pdf 2 chunks, e.pdf has no text at all
DocA == [path |-> <<"data", "a.pdf">>,
         pages |-> PagesOf(<<JoinTokens(<<2, 3, 4, 5, 6>>)>>)]
DocB == [path |-> <<"data", "b.pdf">>,
         pages |-> PagesOf(<<JoinTokens(<<7, 8>>), <<9>>>>)]
DocC == [path |-> <<"data", "up", "c.pdf">>,
         pages |-> PagesOf(<<JoinTokens(<<1, 10>>)>>)]
DocE == [path |-> <<"data", "e.pdf">>,
         pages |-> PagesOf(<<<<>>, <<SP>>>>)]
Docs == {DocA, DocB, DocC, DocE}

SourceNames == <<"a.pdf", "b.pdf", "c.pdf", "e.pdf">>

\* dimensions of the embedding models a deployment may run
Dims == {1, 2}

\* SentenceTransformer.encode of one text under a model of dimension d: a
\* deterministic function of the text (here of its first word)
Embed(d, text) == [j \in 1..d |-> Head(Split(text))]

\* embed_texts
EmbedTexts(d, texts) == [j \in 1..Len(texts) |-> Embed(d, texts[j])]

\* squared Euclidean distance
RECURSIVE SumSq(_, _, _)
SumSq(u, v, j) ==
    IF j > Len(u) THEN 0
    ELSE (u[j] - v[j]) * (u[j] - v[j]) + SumSq(u, v, j + 1)

L2(u, v) == SumSq(u, v, 1)

NoIdxFile == [state |-> "absent", d |-> 0, vecs |-> <<>>]
NoMetaFile == [state |-> "absent", metas |-> <<>>]

\* the value Python holds for "index is None"
NoneIndex == [d |-> 0, vecs |-> <<>>, none |-> TRUE]

\* the files never read back
LoadExistingIndex_AlwaysNew(idxF, metaF) ==
    [index |-> NoneIndex, metas |-> <<>>]

\* load_existing_index: (index, metas), index None when a file is missing
LoadExistingIndex(idxF, metaF) ==
    IF idxF.state = "absent" \/ metaF.state = "absent"
    THEN [index |-> NoneIndex, metas |-> <<>>]
    ELSE [index |-> [d |-> idxF.d, vecs |-> idxF.vecs, none |-> FALSE],
          metas |-> metaF.metas]

\* the meta dict ingest_pdf builds for chunk c of the file at path
MakeMeta(path, c) ==
    [source |-> Basename(path),
     page |-> c.page,
     chunk_idx |-> c.chunk_idx,
     text |-> Truncate(c.text, MetaTextCap)]

\* the new records put in front of the loaded ones
AppendMetas_Prepends(metas, path, chunks) ==
    [j \in 1..Len(chunks) |-> MakeMeta(path, chunks[j])] \o metas

\* the metas.append loop
AppendMetas(metas, path, chunks) ==
    metas \o [j \in 1..Len(chunks) |-> MakeMeta(path, chunks[j])]

\* index.add(xb)
IndexAdd(index, xb) == [index EXCEPT !.vecs = index.vecs \o xb]

\* the check left out
DimensionMismatch_Never(index, d) == FALSE

\* if index is None ... else: if index.d != xb.shape[1]: raise ValueError
DimensionMismatch(index, d) == ~index.none /\ index.d # d

\* ingest_pdf up to save_index: what it raises, or the pair it is about to
\* save; d is the dimension of the embeddings the model produces
IngestPlan(doc, d, idxF, metaF) ==
    LET chunks == ChunkTexts(doc.pages, DefaultChunkSize, DefaultOverlap)
        texts == [j \in 1..Len(chunks) |-> chunks[j].text]
        xb == EmbedTexts(d, texts)
        ld == LoadExistingIndex(idxF, metaF)
        index == IF ld.index.none
                 THEN [d |-> d, vecs |-> <<>>, none |-> FALSE]
                 ELSE ld.index
    IN  IF chunks = <<>>
        THEN [outcome |-> "returned_no_text", nchunks |-> 0,
              index |-> NoneIndex, metas |-> <<>>]
        ELSE IF DimensionMismatch(ld.index, d)
        THEN [outcome |-> "DimensionMismatch", nchunks |-> Len(chunks),
              index |-> NoneIndex, metas |-> <<>>]
        ELSE [outcome |-> "saved", nchunks |-> Len(chunks),
              index |-> IndexAdd(index, xb),
              metas |-> AppendMetas(ld.metas, doc.path, chunks)]

\* faiss.write_index / json.dump, completed
IdxFileOf(index) == [state |-> "ok", d |-> index.d, vecs |-> index.vecs]
MetaFileOf(metas) == [state |-> "ok", metas |-> metas]

(***************************************************************************)
(* The record of the last completed call and what it returned              *)
(***************************************************************************)
NoFilter == [given |-> FALSE, names |-> {}]

LastNone ==
    [op |-> "none", err |-> "", path |-> <<>>, dim |-> 0, nchunks |-> 0,
     k |-> 0, allowed |-> NoFilter, query |-> <<>>, cand |-> <<>>,
     pass1 |-> <<>>, results |-> <<>>, client |-> "", llmCalls |-> 0,
     out |-> <<>>]

\* ingest_pdf(path), one whole call
IngestPdf(doc, d) ==
    LET plan == IngestPlan(doc, d, idxFile, metaFile)
    IN  /\ Len(metaFile.metas) + plan.nchunks <= MaxRecords
        /\ IF plan.outcome = "saved"
           THEN /\ idxFile' = IdxFileOf(plan.index)
                /\ metaFile' = MetaFileOf(plan.metas)
           ELSE UNCHANGED <<idxFile, metaFile>>
        /\ last' = [LastNone EXCEPT
                      !.op = "ingest",
                      !.err = IF plan.outcome = "DimensionMismatch"
                              THEN "DimensionMismatch" ELSE "",
                      !.path = doc.path, !.dim = d,
                      !.nchunks = plan.nchunks]
        /\ UNCHANGED <<wpc, wmem, rpc, rview, ck>>

(***************************************************************************)
(* retrieve                                                                *)
(***************************************************************************)
\* insert position p, at squared distance dist from the query, into the
\* list of <<distance, position>> pairs sorted so far; positions arrive in
\* ascending order, so equal distances stay in ascending position order
RECURSIVE InsertByDistance(_, _)
InsertByDistance(sorted, pair) ==
    IF sorted = <<>> THEN <<pair>>
    ELSE IF Head(sorted)[1] <= pair[1]
    THEN <<Head(sorted)>> \o InsertByDistance(Tail(sorted), pair)
    ELSE <<pair>> \o sorted

RECURSIVE SortByDistance(_, _, _)
SortByDistance(vecs, qv, p) ==
    IF p = 0 THEN <<>>
    ELSE InsertByDistance(SortByDistance(vecs, qv, p - 1),
                          <<L2(vecs[p], qv), p>>)

\* index.search: the n nearest stored vectors as 0-based positions, by
\* ascending squared distance, equal distances by ascending position, and
\* -1 for every place beyond the number of stored vectors
IndexSearch(index, qv, n) ==
    LET sorted == SortByDistance(index.vecs, qv, Len(index.vecs))
    IN  [j \in 1..n |-> IF j <= Len(sorted) THEN sorted[j][2] - 1 ELSE -1]

\* allowed_set = set(allowed_sources) if allowed_sources else None
AllowedSet(allowed) ==
    IF allowed.given /\ allowed.names # {}
    THEN [none |-> FALSE, names |-> allowed.names]
    ELSE [none |-> TRUE, names |-> {}]

\* if allowed_set and src not in allowed_set: continue
SkippedByFilter(aset, src) == ~aset.none /\ aset.names # {} /\ src \notin aset.names

\* the range test left out
OutOfRange_Never(idx, total) == FALSE

\* if idx < 0 or idx >= total: continue
OutOfRange(idx, total) == idx < 0 \/ idx >= total

\* what metas[idx] gives when idx is no position of the list (IndexError)
IndexErrorMeta ==
    [source |-> "IndexError", page |-> 0, chunk_idx |-> 0, text |-> <<>>]

\* metas[idx] of Python: a negative idx counts from the end, an idx outside
\* -len .. len-1 raises IndexError
MetaAt(metas, idx) ==
    IF 0 <= idx /\ idx < Len(metas) THEN metas[idx + 1]
    ELSE IF idx < 0 /\ -idx <= Len(metas) THEN metas[Len(metas) + idx + 1]
    ELSE IndexErrorMeta

\* seen_per_source.setdefault(src, 0); seen_per_source[src]
SeenCount(seen, src) == IF src \in DOMAIN seen THEN seen[src] ELSE 0

\* the count never raised
SeenIncr_Forgets(seen, src) == seen

\* seen_per_source[src] += 1
SeenIncr(seen, src) ==
    [s \in DOMAIN seen \cup {src} |->
        IF s = src THEN SeenCount(seen, src) + 1 ELSE seen[s]]

\* the first loop over I[0], from candidate j on
RECURSIVE FirstPass(_, _, _, _, _, _, _)
FirstPass(cand, j, metas, aset, k, results, seen) ==
    IF j > Len(cand) THEN results
    ELSE IF OutOfRange(cand[j], Len(metas))
    THEN FirstPass(cand, j + 1, metas, aset, k, results, seen)
    ELSE LET meta == MetaAt(metas, cand[j])
             src == meta.source
         IN  IF meta = IndexErrorMeta
             THEN Append(results, meta)
             ELSE IF SkippedByFilter(aset, src)
             THEN FirstPass(cand, j + 1, metas, aset, k, results, seen)
             ELSE IF SeenCount(seen, src) >= PerSourceCap
             THEN FirstPass(cand, j + 1, metas, aset, k, results, seen)
             ELSE IF Len(results) + 1 >= k
             THEN Append(results, meta)
             ELSE FirstPass(cand, j + 1, metas, aset, k,
                            Append(results, meta), SeenIncr(seen, src))

\* meta in results
InResults(meta, results) == \E j \in 1..Len(results) : results[j] = meta

\* the second loop over I[0], entered when len(results) < k
RECURSIVE FallbackPass(_, _, _, _, _, _)
FallbackPass(cand, j, metas, aset, k, results) ==
    IF j > Len(cand) THEN results
    ELSE IF OutOfRange(cand[j], Len(metas))
    THEN FallbackPass(cand, j + 1, metas, aset, k, results)
    ELSE LET meta == MetaAt(metas, cand[j])
             src == meta.source
         IN  IF meta = IndexErrorMeta
             THEN Append(results, meta)
             ELSE IF SkippedByFilter(aset, src)
             THEN FallbackPass(cand, j + 1, metas, aset, k, results)
             ELSE IF InResults(meta, results)
             THEN FallbackPass(cand, j + 1, metas, aset, k, results)
             ELSE IF Len(results) + 1 >= k
             THEN Append(results, meta)
             ELSE FallbackPass(cand, j + 1, metas, aset, k,
                               Append(results, meta))

\* retrieve after load_index, on the loaded pair
RetrieveOn(index, metas, qv, k, allowed) ==
    LET total == Len(metas)
        search_k == Min(total, k * CandidateFactor)
        cand == IndexSearch(index, qv, search_k)
        aset == AllowedSet(allowed)
        pass1 == FirstPass(cand, 1, metas, aset, k, <<>>, <<>>)
        results == IF Len(pass1) < k /\ ~InResults(IndexErrorMeta, pass1)
                   THEN FallbackPass(cand, 1, metas, aset, k, pass1)
                   ELSE pass1
    IN  IF total = 0
        THEN [cand |-> <<>>, pass1 |-> <<>>, results |-> <<>>, err |-> ""]
        ELSE [cand |-> cand, pass1 |-> pass1, results |-> results,
              err |-> IF InResults(IndexErrorMeta, results)
                      THEN "IndexError" ELSE ""]

\* query texts and embed_query
QueryTexts == {<<1>>, <<9>>}
EmbedQuery(d, text) == Embed(d, text)

Ks == 1..MaxK

AllowedInputs ==
    {NoFilter} \cup
    {[given |-> TRUE, names |-> S] :
        S \in {{}, {"b.pdf"}, {"a.pdf", "c.pdf"}}}

\* retrieve(query, k, allowed_sources=allowed), one whole call; the query
\* is embedded by the model the index was built with
Retrieve(query, k, allowed) ==
    /\ last' =
         IF idxFile.state = "absent" \/ metaFile.state = "absent"
         THEN [LastNone EXCEPT !.op = "retrieve", !.err = "IndexNotFound",
                               !.k = k, !.allowed = allowed, !.query = query]
         ELSE LET r == RetrieveOn(idxFile, metaFile.metas,
                                  EmbedQuery(idxFile.d, query), k, allowed)
              IN  [LastNone EXCEPT !.op = "retrieve", !.k = k,
                                   !.allowed = allowed, !.query = query,
                                   !.cand = r.cand, !.pass1 = r.pass1,
                                   !.results = r.results, !.err = r.err]
    /\ UNCHANGED <<idxFile, metaFile, wpc, wmem, rpc, rview, ck>>

(***************************************************************************)
(* generate_answer                                                         *)
(***************************************************************************)
SrcChar(name) == -(40 + (CHOOSE j \in 1..Len(SourceNames) : SourceNames[j] = name))

\* str(n) for a page number or a chunk index
NumChars(n) == <<-(20 + n)>>

IDontKnowText == <<-11>>

\* f"Source: {src} (page {page}, chunk {cidx})\n{text}"
ContextItem(r) ==
    <<SourceLabel, SrcChar(r.source), PageLabel>> \o NumChars(r.page)
    \o <<ChunkLabel>> \o NumChars(r.chunk_idx) \o <<NL>> \o r.text

\* "\n\n---\n\n".join(context_items)
Context(retrieved) ==
    JoinWith(<<NL, NL, SepChar, NL, NL>>,
             [j \in 1..Len(retrieved) |-> ContextItem(retrieved[j])])

\* the fallback without a client
NoClientAnswer(context) == <<NoKeyLabel, SnippetsLabel, NL, NL>> \o context

\* the error text alone
ApiErrorAnswer_DropsContext(errText, context) ==
    <<ApiErrorLabel>> \o errText

\* the fallback of the except branch; errText is str(e)
ApiErrorAnswer(errText, context) ==
    <<ApiErrorLabel>> \o errText \o <<NL, NL, SnippetsLabel, NL, NL>> \o context

\* what the client does: absent, returns a completion, or raises
ClientKinds == {"none", "completion", "raises"}
ErrTexts == {<<ErrChar>>, <<>>}
CompletionText == <<CompletionChar>>

\* the test of retrieved placed after the client branches
GenerateOn_EmptyTestLast(retrieved, client, errText) ==
    IF client = "none"
    THEN [out |-> NoClientAnswer(Context(retrieved)), llmCalls |-> 0,
          err |-> ""]
    ELSE IF client = "completion"
    THEN [out |-> CompletionText, llmCalls |-> 1, err |-> ""]
    ELSE IF retrieved = <<>>
    THEN [out |-> IDontKnowText, llmCalls |-> 0, err |-> ""]
    ELSE [out |-> ApiErrorAnswer(errText, Context(retrieved)), llmCalls |-> 1,
          err |-> ""]

\* generate_answer(query, retrieved): the returned string and the number of
\* calls of client.chat.completions.create
GenerateOn(retrieved, client, errText) ==
    IF retrieved = <<>>
    THEN [out |-> IDontKnowText, llmCalls |-> 0, err |-> ""]
    ELSE IF client = "none"
    THEN [out |-> NoClientAnswer(Context(retrieved)), llmCalls |-> 0,
          err |-> ""]
    ELSE IF client = "completion"
    THEN [out |-> CompletionText, llmCalls |-> 1, err |-> ""]
    ELSE [out |-> ApiErrorAnswer(errText, Context(retrieved)), llmCalls |-> 1,
          err |-> ""]

\* generate_answer on what the last retrieve returned (app.py)
GenerateAnswer(client, errText) ==
    /\ last.op = "retrieve"
    /\ last.err = ""
    /\ LET g == GenerateOn(last.results, client, errText)
       IN  last' = [last EXCEPT !.op = "answer", !.client = client,
                                !.out = g.out, !.llmCalls = g.llmCalls,
                                !.err = g.err]
    /\ UNCHANGED <<idxFile, metaFile, wpc, wmem, rpc, rview, ck>>

(***************************************************************************)
(* Specifications                                                          *)
(***************************************************************************)
WIdle == [index |-> NoneIndex, metas |-> <<>>]
RIdle == [idx |-> NoIdxFile, meta |-> NoMetaFile]

Init ==
    /\ idxFile = NoIdxFile
    /\ metaFile = NoMetaFile
    /\ last = LastNone
    /\ wpc = "idle"
    /\ wmem = WIdle
    /\ rpc = "idle"
    /\ rview = RIdle
    /\ ck = CkIdle

Next ==
    \/ \E doc \in Docs, d \in Dims : IngestPdf(doc, d)
    \/ \E q \in QueryTexts, k \in Ks, a \in AllowedInputs : Retrieve(q, k, a)
    \/ \E c \in ClientKinds, e \in ErrTexts : GenerateAnswer(c, e)

\* ingestion, retrieval and answering, one call at a time
Spec == Init /\ [][Next]_vars

InitChunk ==
    /\ idxFile = NoIdxFile
    /\ metaFile = NoMetaFile
    /\ last = LastNone
    /\ wpc = "idle"
    /\ wmem = WIdle
    /\ rpc = "idle"
    /\ rview = RIdle
    /\ \E pages \in PageLists, cs \in ChunkSizes, ov \in Overlaps :
         ck = [CkIdle EXCEPT !.pc = "for", !.pages = pages,
                             !.chunk_size = cs, !.overlap = ov]

NextChunk == ChunkForPage \/ ChunkIter \/ ChunkWhileExit \/ ChunkReturn

\* one call of chunk_texts on every input of the bounded sets
SpecChunk == InitChunk /\ [][NextChunk]_vars

\* the same call, run to its end: chunk_texts is straight-line sequential
\* code, so a step that can be taken is taken
SpecChunkFair == SpecChunk /\ WF_vars(NextChunk)

(***************************************************************************)
(* save_index and the loaders, file operation by file operation            *)
(***************************************************************************)
\* a file opened for writing and not yet written: truncated
TruncatedIdxFile == [state |-> "partial", d |-> 0, vecs |-> <<>>]
TruncatedMetaFile == [state |-> "partial", metas |-> <<>>]

\* both files are there and one of them cannot be parsed
Unreadable(idxF, metaF) ==
    /\ idxF.state # "absent"
    /\ metaF.state # "absent"
    /\ (idxF.state = "partial" \/ metaF.state = "partial")

\* ingest_pdf up to the call of save_index; a call that returns or raises
\* before save_index touches no file and is a stuttering step here
WriterBegin(doc, d) ==
    /\ wpc = "idle"
    /\ ~Unreadable(idxFile, metaFile)
    /\ LET plan == IngestPlan(doc, d, idxFile, metaFile)
       IN  /\ plan.outcome = "saved"
           /\ Len(plan.index.vecs) <= MaxCrashRecords
           /\ Len(plan.metas) <= MaxCrashRecords
           /\ wmem' = [index |-> plan.index, metas |-> plan.metas]
    /\ wpc' = "open_index"
    /\ UNCHANGED <<idxFile, metaFile, last, rpc, rview, ck>>

\* faiss.write_index opens idx_file for writing
WriterOpenIndex ==
    /\ wpc = "open_index"
    /\ idxFile' = TruncatedIdxFile
    /\ wpc' = "write_index"
    /\ UNCHANGED <<metaFile, last, wmem, rpc, rview, ck>>

\* faiss.write_index has written the index
WriterWriteIndex ==
    /\ wpc = "write_index"
    /\ idxFile' = IdxFileOf(wmem.index)
    /\ wpc' = "open_meta"
    /\ UNCHANGED <<metaFile, last, wmem, rpc, rview, ck>>

\* open(meta_file, "w")
WriterOpenMeta ==
    /\ wpc = "open_meta"
    /\ metaFile' = TruncatedMetaFile
    /\ wpc' = "dump_meta"
    /\ UNCHANGED <<idxFile, last, wmem, rpc, rview, ck>>

\* json.dump(metas, f) and the end of the with block
WriterDumpMeta ==
    /\ wpc = "dump_meta"
    /\ metaFile' = MetaFileOf(wmem.metas)
    /\ wpc' = "idle"
    /\ wmem' = WIdle
    /\ UNCHANGED <<idxFile, last, rpc, rview, ck>>

\* the writing process dies inside save_index
WriterCrash ==
    /\ wpc # "idle"
    /\ wpc' = "idle"
    /\ wmem' = WIdle
    /\ UNCHANGED <<idxFile, metaFile, last, rpc, rview, ck>>

\* load_index / load_existing_index: the two os.path.exists tests
ReaderBegin ==
    /\ rpc \in {"idle", "loaded", "failed", "not_found", "retrieved"}
    /\ rpc' = IF idxFile.state = "absent" \/ metaFile.state = "absent"
              THEN "not_found" ELSE "read_index"
    /\ rview' = RIdle
    /\ UNCHANGED <<idxFile, metaFile, last, wpc, wmem, ck>>

\* index = faiss.read_index(idx_file)
ReaderReadIndex ==
    /\ rpc = "read_index"
    /\ IF idxFile.state = "ok"
       THEN /\ rview' = [rview EXCEPT !.idx = idxFile]
            /\ rpc' = "read_meta"
       ELSE /\ rview' = RIdle
            /\ rpc' = "failed"
    /\ UNCHANGED <<idxFile, metaFile, last, wpc, wmem, ck>>

\* metas = json.load(f)
ReaderReadMeta ==
    /\ rpc = "read_meta"
    /\ IF metaFile.state = "ok"
       THEN /\ rview' = [rview EXCEPT !.meta = metaFile]
            /\ rpc' = "loaded"
       ELSE /\ rview' = RIdle
            /\ rpc' = "failed"
    /\ UNCHANGED <<idxFile, metaFile, last, wpc, wmem, ck>>

\* retrieve after load_index returned the pair rview; the pair stays in
\* rview for the properties to look at
ReaderRetrieve(query, k, allowed) ==
    /\ rpc = "loaded"
    /\ LET r == RetrieveOn(rview.idx, rview.meta.metas,
                           EmbedQuery(rview.idx.d, query), k, allowed)
       IN  last' = [LastNone EXCEPT !.op = "retrieve", !.k = k,
                                    !.allowed = allowed, !.query = query,
                                    !.cand = r.cand, !.pass1 = r.pass1,
                                    !.results = r.results, !.err = r.err]
    /\ rpc' = "retrieved"
    /\ UNCHANGED <<idxFile, metaFile, wpc, wmem, rview, ck>>

NextCrash ==
    \/ \E doc \in Docs, d \in Dims : WriterBegin(doc, d)
    \/ WriterOpenIndex
    \/ WriterWriteIndex
    \/ WriterOpenMeta
    \/ WriterDumpMeta
    \/ WriterCrash
    \/ ReaderBegin
    \/ ReaderReadIndex
    \/ ReaderReadMeta
    \/ \E q \in QueryTexts, k \in Ks, a \in AllowedInputs :
          ReaderRetrieve(q, k, a)

\* one ingesting process that may die and one loading process
SpecCrash == Init /\ [][NextCrash]_vars

(***************************************************************************)
(* Properties                                                              *)
(***************************************************************************)
CountSource(seq, src) == Cardinality({j \in 1..Len(seq) : seq[j].source = src})

SourcesOf(seq) == {seq[j].source : j \in 1..Len(seq)}

\* a record counts as allowed when there is no filter or its source is in it
IsAllowed(meta, allowed) == ~allowed.given \/ meta.source \in allowed.names

NumAllowed(metas, allowed) ==
    Cardinality({j \in 1..Len(metas) : IsAllowed(metas[j], allowed)})

RetrieveReturned == last.op = "retrieve" /\ last.err = ""

\* C1: retrieve returns at most k records, and exactly k records whenever
\* the index holds at least k records whose source is allowed.
C1_RetrievalCap ==
    RetrieveReturned =>
        /\ Len(last.results) <= last.k
        /\ NumAllowed(metaFile.metas, last.allowed) >= last.k
              => Len(last.results) = last.k

\* the chunk of the ingested documents that a record describes
ChunksOfSource(src) ==
    LET doc == CHOOSE dd \in Docs : Basename(dd.path) = src
    IN  ChunkTexts(doc.pages, DefaultChunkSize, DefaultOverlap)

Describes(meta, c) ==
    /\ c.page = meta.page
    /\ c.chunk_idx = meta.chunk_idx
    /\ meta.text = Truncate(c.text, MetaTextCap)

\* C2: after any sequence of ingest_pdf calls the persisted metadata list is
\* as long as the persisted vector index, and for every position i the record
\* metas[i] describes the chunk whose embedding is the vector at position i.
C2_Alignment ==
    /\ (idxFile.state = "absent") = (metaFile.state = "absent")
    /\ Len(metaFile.metas) = Len(idxFile.vecs)
    /\ \A i \in 1..Len(metaFile.metas) :
         LET meta == metaFile.metas[i]
             cs == ChunksOfSource(meta.source)
         IN  \E j \in 1..Len(cs) :
                /\ Describes(meta, cs[j])
                /\ idxFile.vecs[i] = Embed(idxFile.d, cs[j].text)

C2_Witness ==
    /\ last.op = "ingest"
    /\ Len(metaFile.metas) = Len(idxFile.vecs)
    /\ Cardinality(SourcesOf(metaFile.metas)) >= 2
    /\ \E i, j \in 1..Len(metaFile.metas) : i < j /\ metaFile.metas[i] = metaFile.metas[j]

\* C3: ingest_pdf on an existing index with embeddings of another dimension
\* fails with the dimension-mismatch error and leaves the persisted index
\* file and metadata file as they were.
C3_DimensionMismatchKeepsFiles ==
    [][(/\ idxFile.state = "ok"
        /\ metaFile.state = "ok"
        /\ last'.op = "ingest"
        /\ last'.nchunks > 0
        /\ last'.dim # idxFile.d)
       => (/\ last'.err = "DimensionMismatch"
           /\ idxFile' = idxFile
           /\ metaFile' = metaFile)]_vars

C3_Witness ==
    /\ last.op = "ingest"
    /\ last.err = "DimensionMismatch"
    /\ last.dim # idxFile.d
    /\ Len(idxFile.vecs) > 0

\* the first n entries of seq whose source is src
RECURSIVE FirstOfSource(_, _, _)
FirstOfSource(seq, n, src) ==
    IF n = 0 \/ seq = <<>> THEN <<>>
    ELSE IF Head(seq).source = src
    THEN <<Head(seq)>> \o FirstOfSource(Tail(seq), n - 1, src)
    ELSE FirstOfSource(Tail(seq), n, src)

\* the candidates of the last retrieve as records, nearest first
CandidateMetas == [j \in 1..Len(last.cand) |-> metaFile.metas[last.cand[j] + 1]]

\* 5 records of a.pdf, all nearer than the 3 records of b.pdf, no filter, k=4
DiversityScenario ==
    /\ RetrieveReturned
    /\ last.k = 4
    /\ ~last.allowed.given
    /\ Len(metaFile.metas) = 8
    /\ CountSource(metaFile.metas, "a.pdf") = 5
    /\ CountSource(metaFile.metas, "b.pdf") = 3
    /\ Len(last.cand) = 8
    /\ \A j \in 1..5 : CandidateMetas[j].source = "a.pdf"

\* C4: the first pass accepts at most 2 records per source, so the result
\* holds more than 2 records of one source only when the first pass ended with
\* fewer than k results; in the scenario of 5 nearer a.pdf records and 3
\* b.pdf records with k=4 the result is the 2 nearest a.pdf records followed
\* by the 2 nearest b.pdf records; first-pass results precede fallback ones.
C4_DiversityThenFallback ==
    RetrieveReturned =>
        /\ \A src \in SourcesOf(last.pass1) : CountSource(last.pass1, src) <= 2
        /\ (\E src \in SourcesOf(last.results) :
               CountSource(last.results, src) > 2) => Len(last.pass1) < last.k
        /\ Len(last.pass1) <= Len(last.results)
        /\ SubSeq(last.results, 1, Len(last.pass1)) = last.pass1
        /\ DiversityScenario =>
             last.results =
                FirstOfSource(CandidateMetas, 2, "a.pdf")
                \o FirstOfSource(CandidateMetas, 2, "b.pdf")

C4_Witness ==
    /\ DiversityScenario
    /\ Len(last.results) = 4
    /\ last.results[2].source = "a.pdf"
    /\ last.results[3].source = "b.pdf"

\* a retrieve whose fallback pass added records of a source beyond the cap
C4_FallbackReached ==
    /\ RetrieveReturned
    /\ Len(last.pass1) = 2
    /\ Len(last.results) = 4
    /\ Cardinality(SourcesOf(last.results)) = 1

\* C5: whenever an allowed_sources filter is provided, the empty set
\* included, every returned record has a source in allowed_sources.
C5_OnlyAllowedSources ==
    (RetrieveReturned /\ last.allowed.given) =>
        \A j \in 1..Len(last.results) :
            last.results[j].source \in last.allowed.names

\* C9: ingesting a document whose pages all have empty text fails with a
\* NoTextExtracted error instead of completing as a successful ingestion.
C9_NoTextIsAnError ==
    (last.op = "ingest" /\ last.nchunks = 0) => last.err = "NoTextExtracted"

\* the texts occur in out one after the other, from offset from on
RECURSIVE OccurInOrder(_, _, _)
OccurInOrder(texts, out, from) ==
    IF texts = <<>> THEN TRUE
    ELSE LET offs == {o \in from..Len(out) : OccursAt(Head(texts), out, o)}
         IN  /\ offs # {}
             /\ LET o == CHOOSE x \in offs : \A y \in offs : x <= y
                IN  OccurInOrder(Tail(texts), out, o + Len(Head(texts)))

NoCompletion == last.op = "answer" /\ last.client \in {"none", "raises"}

\* C10: for a non-empty retrieved sequence, when no completion is obtained
\* (no client, or the model call raises), generate_answer returns a string
\* normally and the string contains the text of every retrieved record
\* verbatim, in retrieval order.
C10_DegradedAnswerKeepsEvidence ==
    (NoCompletion /\ last.results # <<>>) =>
        /\ last.err = ""
        /\ \A j \in 1..Len(last.results) : IsSubstring(last.results[j].text, last.out)
        /\ OccurInOrder([j \in 1..Len(last.results) |-> last.results[j].text],
                        last.out, 0)

C10_Witness ==
    /\ last.op = "answer"
    /\ last.client = "raises"
    /\ last.llmCalls = 1
    /\ Len(last.results) >= 3
    /\ last.results[1].text # last.results[2].text
    /\ IsSubstring(last.results[3].text, last.out)

(***************************************************************************)
(* Properties of chunk_texts, on the finished call                         *)
(***************************************************************************)
CeilDiv(a, b) == (a + b - 1) \div b

\* the call has returned and its arguments satisfy chunk_size > overlap >= 0
ChunkedWithOverlapBelowSize ==
    /\ ck.pc = "done"
    /\ ck.overlap >= 0
    /\ ck.chunk_size > ck.overlap

PageTokens(p) == Split(ck.pages[p].text)

\* the chunks emitted for page p, in emission order
ChunksOfPage(p) == SelectSeq(ck.chunks, LAMBDA c : c.page = ck.pages[p].page)

\* the count the specification states
StatedChunkCount(T, chunk_size, overlap) ==
    CeilDiv(Max(0, T - chunk_size), chunk_size - overlap)
    + (IF T > 0 THEN 1 ELSE 0)

\* C6 as stated: for chunk_size > overlap >= 0 a page of T tokens gives
\* ceil(max(0, T - chunk_size) / (chunk_size - overlap)) + (1 if T > 0 else 0)
\* chunks.
C6_StatedChunkCount ==
    ChunkedWithOverlapBelowSize =>
        \A p \in 1..Len(ck.pages) :
            Len(ChunksOfPage(p)) =
                StatedChunkCount(Len(PageTokens(p)), ck.chunk_size, ck.overlap)

\* C6 as amended: for chunk_size > overlap >= 0 a page of T tokens gives
\* ceil(T / (chunk_size - overlap)) chunks, one per window start
\* 0, step, 2*step, ... below T.
C6_ChunkCount ==
    ChunkedWithOverlapBelowSize =>
        \A p \in 1..Len(ck.pages) :
            Len(ChunksOfPage(p)) =
                CeilDiv(Len(PageTokens(p)), ck.chunk_size - ck.overlap)

\* a page longer than the window, cut with a positive overlap: the last
\* windows start inside the previous one and the two counts differ
C6_Witness ==
    /\ ChunkedWithOverlapBelowSize
    /\ ck.overlap > 0
    /\ \E p \in 1..Len(ck.pages) :
         /\ Len(PageTokens(p)) > ck.chunk_size
         /\ Len(ChunksOfPage(p)) >
               StatedChunkCount(Len(PageTokens(p)), ck.chunk_size, ck.overlap)

\* C7: for chunk_size > overlap >= 0 every token of a page appears in at
\* least one chunk of that page, the chunks of a page carry chunk_idx
\* 0, 1, 2, ... in emission order, and a page without tokens gives no chunk.
C7_ChunkCoverage ==
    ChunkedWithOverlapBelowSize =>
        \A p \in 1..Len(ck.pages) :
            LET toks == PageTokens(p)
                cs == ChunksOfPage(p)
            IN  /\ \A t \in 1..Len(toks) :
                     \E j \in 1..Len(cs) :
                        \E w \in 1..Len(Split(cs[j].text)) :
                           Split(cs[j].text)[w] = toks[t]
                /\ \A j \in 1..Len(cs) : cs[j].chunk_idx = j - 1
                /\ toks = <<>> => cs = <<>>

C7_Witness ==
    /\ ChunkedWithOverlapBelowSize
    /\ ck.overlap > 0
    /\ Len(ck.pages) = 2
    /\ PageTokens(1) = <<>>
    /\ Len(PageTokens(2)) > ck.chunk_size
    /\ Len(ChunksOfPage(2)) >= 2
    /\ ChunksOfPage(1) = <<>>

(***************************************************************************)
(* Properties of save_index against a loader                               *)
(***************************************************************************)
\* C8: save_index persists the index and the metadata atomically as a pair:
\* during a save and after a crash inside a save, a reader that loads the two
\* files gets a complete pair, never an unreadable file and never a vector
\* file and a metadata file with different record counts.
C8_ReaderSeesConsistentPair ==
    /\ rpc # "failed"
    /\ rpc = "loaded" => Len(rview.idx.vecs) = Len(rview.meta.metas)

\* the same, for the files left behind once no save is running
C8_FilesConsistentAtRest ==
    wpc = "idle" =>
        /\ (idxFile.state = "absent") = (metaFile.state = "absent")
        /\ idxFile.state # "partial"
        /\ metaFile.state # "partial"
        /\ Len(idxFile.vecs) = Len(metaFile.metas)

(***************************************************************************)
(* Further properties of generate_answer and ingest_pdf                    *)
(***************************************************************************)
\* C11: generate_answer on an empty retrieved sequence returns exactly the
\* fixed "I don't know. No information found in the selected documents."
\* string and makes no call to the language-model client, whether or not a
\* client is configured.
C11_EmptyRetrievalFixedAnswer ==
    (last.op = "answer" /\ last.results = <<>>) =>
        /\ last.out = IDontKnowText
        /\ last.llmCalls = 0
        /\ last.err = ""

C11_Witness ==
    /\ last.op = "answer"
    /\ last.results = <<>>
    /\ last.client = "completion"
    /\ last.out = IDontKnowText
    /\ Len(metaFile.metas) > 0

\* the records and vectors persisted before a step are, after it, at the
\* same positions with the same content
PersistedPrefixKept ==
    /\ Len(metaFile'.metas) >= Len(metaFile.metas)
    /\ SubSeq(metaFile'.metas, 1, Len(metaFile.metas)) = metaFile.metas
    /\ Len(idxFile'.vecs) >= Len(idxFile.vecs)
    /\ SubSeq(idxFile'.vecs, 1, Len(idxFile.vecs)) = idxFile.vecs

\* after the step, the records behind the old ones are those of the chunks
\* of the document just ingested, one per chunk, in chunk order
OneRecordPerNewChunk ==
    LET old == Len(metaFile.metas)
        cs == ChunksOfSource(Basename(last'.path))
    IN  /\ Len(metaFile'.metas) = old + Len(cs)
        /\ Len(idxFile'.vecs) = Len(idxFile.vecs) + Len(cs)
        /\ last'.nchunks = Len(cs)
        /\ \A j \in 1..Len(cs) :
              /\ metaFile'.metas[old + j].source = Basename(last'.path)
              /\ Describes(metaFile'.metas[old + j], cs[j])

\* C12: ingestion is append-only: every ingest_pdf call that completes
\* leaves all previously persisted records at the same positions with
\* unchanged content and appends exactly one record per chunk of the new
\* document after them; no record is ever mutated or deleted.
C12_AppendOnly ==
    [][/\ PersistedPrefixKept
       /\ (last'.op = "ingest" /\ last'.err = "") => OneRecordPerNewChunk
       /\ last'.op # "ingest" => (metaFile' = metaFile /\ idxFile' = idxFile)
      ]_vars

\* the same file ingested twice in a row over an older record set: its
\* chunks are stored twice
C12_Witness ==
    /\ last.op = "ingest"
    /\ last.err = ""
    /\ last.nchunks >= 2
    /\ Len(metaFile.metas) > 2 * last.nchunks
    /\ LET n == Len(metaFile.metas)
           c == last.nchunks
       IN  /\ SubSeq(metaFile.metas, n - c + 1, n)
                = SubSeq(metaFile.metas, n - 2 * c + 1, n - c)
           /\ metaFile.metas[1].source # metaFile.metas[n].source

(***************************************************************************)
(* Termination of chunk_texts                                              *)
(***************************************************************************)
\* a step that is one iteration of the while loop
IsChunkIteration == Len(ck'.chunks) = Len(ck.chunks) + 1

\* C13: chunk_texts terminates for every finite sequence of pages and every
\* chunk_size and overlap, overlap >= chunk_size included: every iteration
\* advances the window start by at least 1 token, so the loop of a page of
\* T tokens makes at most T iterations, and the call returns.
C13_ChunkTextsTerminates ==
    /\ [][IsChunkIteration => ck'.i >= ck.i + 1]_vars
    /\ [](ck.pc = "while" => (ck.idx <= Len(ck.tokens) /\ ck.idx <= ck.i))
    /\ <>(ck.pc = "done")

\* a finished call with overlap >= chunk_size on a page of several tokens:
\* the step was clamped to 1 and the page gave one chunk per token
C13_Witness ==
    /\ ck.pc = "done"
    /\ ck.overlap >= ck.chunk_size
    /\ \E p \in 1..Len(ck.pages) :
         /\ Len(PageTokens(p)) >= 2
         /\ Len(ChunksOfPage(p)) = Len(PageTokens(p))

(***************************************************************************)
(* retrieve on a loaded pair of any two lengths                            *)
(***************************************************************************)
\* retrieve has just run on the pair in rview
RetrievedOnLoadedPair == rpc = "retrieved" /\ last.op = "retrieve"

LoadedMetas == rview.meta.metas

\* the candidate positions that are positions of the loaded metadata list
InBoundsCandidates ==
    {last.cand[c] : c \in {x \in 1..Len(last.cand) :
                              0 <= last.cand[x] /\ last.cand[x] < Len(LoadedMetas)}}

\* C14: retrieve never reads the metadata list outside its bounds and
\* returns only records of the loaded metadata list, also when the loaded
\* index has more or fewer vectors than the list has records: candidate
\* positions that are negative or not below len(metas) are skipped in both
\* passes, so every result is the record at an in-bounds candidate position.
C14_RetrieveStaysInBounds ==
    RetrievedOnLoadedPair =>
        /\ last.err = ""
        /\ \A j \in 1..Len(last.results) :
              \E c \in InBoundsCandidates : last.results[j] = LoadedMetas[c + 1]
        /\ \A j \in 1..Len(last.pass1) :
              \E c \in InBoundsCandidates : last.pass1[j] = LoadedMetas[c + 1]

\* more vectors than records: a candidate position beyond the list, seen
\* by the first pass and again by the fallback pass
C14_Witness ==
    /\ RetrievedOnLoadedPair
    /\ Len(rview.idx.vecs) > Len(LoadedMetas)
    /\ \E c \in 1..Len(last.cand) : last.cand[c] >= Len(LoadedMetas)
    /\ last.results # <<>>
    /\ Len(last.results) < last.k

\* fewer vectors than records: the search pads the candidates with -1
C14_FewerVectorsReached ==
    /\ RetrievedOnLoadedPair
    /\ Len(rview.idx.vecs) < Len(LoadedMetas)
    /\ \E c \in 1..Len(last.cand) : last.cand[c] < 0
    /\ last.results # <<>>

====
